---- MODULE Spec2Model ----
(***************************************************************************)
(* tree-sed: a sed-like tool that edits a source file at the syntax nodes  *)
(* a tree-sitter query captures.                                           *)
(*                                                                         *)
(* Two state machines are modelled:                                        *)
(*   SpecParse  the script tokenizer and parser (src/src/script_parser.rs) *)
(*   Spec       the driver and the edit engine   (src/src/main.rs)         *)
(*                                                                         *)
(* A string is a sequence of characters; a character is a one-character    *)
(* TLA+ string, except the non-ASCII characters, which are named by their  *)
(* code point ("U+E9") and have a UTF-8 length above one.                  *)
(***************************************************************************)
EXTENDS Integers, Sequences, FiniteSets, TLC

VARIABLES
    \* ---- script_parser.rs
    text,             \* the script handed to parse / Tokenizer::new
    overflow_checks,  \* build profile: TRUE = u32/usize overflow panics, FALSE = it wraps
    tpos,             \* Reader.pos of the tokenizer being stepped by get_token
    tokens,           \* the tokens get_token has returned so far
    tstatus,          \* "run" | "eof" | "panic": the stepped tokenizer
    syms,             \* the calls of get_sym made so far: where, with what split, the result
    parsed,           \* the result of parse(text), or NotParsed
    \* ---- main.rs
    file,             \* the persisted contents of FILE
    file0,            \* history: the contents of FILE when main started
    script,           \* the Script handed to execute_script
    source_code,      \* main's `source_code` buffer
    tree_text,        \* the text the current syntax tree (`edit_tree`) was parsed from
    caps,             \* the captures the query engine reported, in discovery order
    node_map,         \* execute_query's HashMap: capture name -> nodes
    worklist,         \* the <<name, index>> pairs the running loop has still to visit
    all_edit,         \* the loop's `all_edit`
    pc,               \* where main is
    error,            \* the message of the anyhow error main returned, or ""
    in_place,         \* occurrences_of("in-place") as read at main.rs:291, or -1
    stdout            \* what println! wrote

pvars == <<text, overflow_checks, tpos, tokens, tstatus, syms, parsed>>

evars == <<file, file0, script, source_code, tree_text, caps, node_map, worklist,
           all_edit, pc, error, in_place, stdout>>

vars == <<pvars, evars>>

-----------------------------------------------------------------------------
(* Characters                                                              *)

AsciiDigits == <<"0", "1", "2", "3", "4", "5", "6", "7", "8", "9">>

AsciiLetters ==
    {"a", "b", "c", "d", "e", "f", "g", "h", "i", "j", "k", "l", "m",
     "n", "o", "p", "q", "r", "s", "t", "u", "v", "w", "x", "y", "z",
     "A", "B", "C", "D", "E", "F", "G", "H", "I", "J", "K", "L", "M",
     "N", "O", "P", "Q", "R", "S", "T", "U", "V", "W", "X", "Y", "Z"}

\* char::is_ascii_digit
IsAsciiDigit(ch) == \E i \in 1..Len(AsciiDigits) : AsciiDigits[i] = ch

\* char::is_ascii_alphabetic
IsAsciiAlphabetic(ch) == ch \in AsciiLetters

\* char::to_digit(10).unwrap_or(0)
ToDigit(ch) ==
    IF IsAsciiDigit(ch)
    THEN (CHOOSE i \in 1..Len(AsciiDigits) : AsciiDigits[i] = ch) - 1
    ELSE 0

\* The characters of the model that are not ASCII, with their UTF-8 lengths.
NonAscii == {"U+E9", "U+4E2D"}

\* char::len_utf8
Utf8Len(ch) == IF ch = "U+E9" THEN 2 ELSE IF ch = "U+4E2D" THEN 3 ELSE 1

\* Option<char>::None
NoChar == ""

-----------------------------------------------------------------------------
(* u32: a value is kept as two 16-bit halves, so that the 32-bit width of  *)
(* `num` is the code's.                                                    *)

Half == 65536

U32(h, l) == [hi |-> h, lo |-> l]

U32Zero == U32(0, 0)

\* num * 10 + digit, in u32: the wrapped value and whether it overflowed.
U32MulAdd10(num, digit) ==
    LET l == num.lo * 10 + digit
        h == num.hi * 10 + (l \div Half)
    IN  [val |-> U32(h % Half, l % Half), overflow |-> h >= Half]

-----------------------------------------------------------------------------
(* Reader                                                                  *)

\* Reader::peek: the character at `pos`, if any.
Peek(chars, pos) == IF pos < Len(chars) THEN chars[pos + 1] ELSE NoChar

-----------------------------------------------------------------------------
(* Tokens                                                                  *)

Token(ty, n, c, s) == [type |-> ty, num |-> n, ch |-> c, sym |-> s]

TNumber(n) == Token("Number", n, NoChar, <<>>)
TChar(c)   == Token("Char", U32Zero, c, <<>>)
TSymbol(s) == Token("Symbol", U32Zero, NoChar, s)
\* Option<Token>::None
TNone      == Token("None", U32Zero, NoChar, <<>>)
\* The call did not return: an arithmetic overflow panicked.
TPanic     == Token("Panic", U32Zero, NoChar, <<>>)

RECURSIVE ParseNumberFrom(_, _, _, _)
ParseNumberFrom(chars, pos, num, oc) ==
    IF IsAsciiDigit(Peek(chars, pos))
    THEN LET r == U32MulAdd10(num, ToDigit(Peek(chars, pos)))
         IN  IF r.overflow /\ oc
             THEN [num |-> num, pos |-> pos, panic |-> TRUE]
             ELSE ParseNumberFrom(chars, pos + 1, r.val, oc)
    ELSE [num |-> num, pos |-> pos, panic |-> FALSE]

\* parse_number
ParseNumber(chars, pos, oc) == ParseNumberFrom(chars, pos, U32Zero, oc)

RECURSIVE ParseSymbolFrom(_, _, _)
ParseSymbolFrom(chars, pos, s) ==
    IF IsAsciiAlphabetic(Peek(chars, pos))
    THEN ParseSymbolFrom(chars, pos + 1, Append(s, Peek(chars, pos)))
    ELSE [sym |-> s, pos |-> pos]

\* parse_symbol
ParseSymbol(chars, pos) == ParseSymbolFrom(chars, pos, <<>>)

\* Tokenizer::get_token: the token and the reader's position after it.
GetToken(chars, pos, oc) ==
    LET last_char == Peek(chars, pos) IN
    IF last_char = NoChar THEN [tok |-> TNone, pos |-> pos]
    ELSE IF IsAsciiDigit(last_char)
    THEN LET n == ParseNumber(chars, pos, oc)
         IN  IF n.panic THEN [tok |-> TPanic, pos |-> n.pos]
             ELSE [tok |-> TNumber(n.num), pos |-> n.pos]
    ELSE IF IsAsciiAlphabetic(last_char)
    THEN LET s == ParseSymbol(chars, pos)
         IN  [tok |-> TSymbol(s.sym), pos |-> s.pos]
    ELSE [tok |-> TChar(last_char), pos |-> pos + 1]

-----------------------------------------------------------------------------
(* str, indexed by bytes                                                   *)

RECURSIVE ByteOffset(_, _)
\* The byte offset of the character with index i (0-based) of `chars`.
ByteOffset(chars, i) ==
    IF i = 0 THEN 0 ELSE ByteOffset(chars, i - 1) + Utf8Len(chars[i])

\* str::len
ByteLen(chars) == ByteOffset(chars, Len(chars))

RECURSIVE CharIndexFrom(_, _, _, _)
\* The index i' >= i of the character that starts at byte offset b, given that
\* character i starts at byte offset `off`; -1 when b is inside a character or
\* past the end.
CharIndexFrom(chars, i, off, b) ==
    IF off = b THEN i
    ELSE IF off > b \/ i = Len(chars) THEN -1
    ELSE CharIndexFrom(chars, i + 1, off + Utf8Len(chars[i + 1]), b)

\* The number of characters before byte offset b, or -1
CharIndexAt(chars, b) == CharIndexFrom(chars, 0, 0, b)

\* str::is_char_boundary
IsCharBoundary(chars, b) == CharIndexAt(chars, b) >= 0

\* Option<&str>::None
NoStr == [some |-> FALSE, val |-> <<>>]

\* str::get(a..b): the slice between BYTE offsets a and b, if both are character
\* boundaries and a <= b.
StrGet(chars, a, b) ==
    IF a <= b /\ IsCharBoundary(chars, a) /\ IsCharBoundary(chars, b)
    THEN [some |-> TRUE,
          val  |-> SubSeq(chars, CharIndexAt(chars, a) + 1, CharIndexAt(chars, b))]
    ELSE NoStr

\* str::chars().nth(n)
CharsNth(chars, n) == IF n >= 0 /\ n < Len(chars) THEN chars[n + 1] ELSE NoChar

RECURSIVE ScanUntil(_, _, _, _)
RECURSIVE ScanNext(_, _, _, _)
\* The body of the loop of get_sym, on the token t it has just read.
ScanNext(t, chars, split, oc) ==
    IF t.tok.type \in {"None", "Panic"} THEN t
    ELSE IF t.tok.type = "Char" /\ t.tok.ch = split THEN t
    ELSE ScanUntil(chars, t.pos, split, oc)

\* The loop of get_sym: tokens are read up to and including Char(split).
ScanUntil(chars, pos, split, oc) == ScanNext(GetToken(chars, pos, oc), chars, split, oc)

\* get_sym: `end_pos -= 1` when the character before end_pos is `split`
GetSymEndPos(chars, end_pos, split) ==
    IF end_pos > 0 /\ CharsNth(chars, end_pos - 1) = split THEN end_pos - 1 ELSE end_pos

\* get_sym: Some(Token::Symbol(selected)), or None when get returns None
GetSymSelected(scan, selected) ==
    IF selected.some
    THEN [tok |-> TSymbol(selected.val), pos |-> scan.pos]
    ELSE [tok |-> TNone, pos |-> scan.pos]

\* get_sym after its loop, which stopped at `scan`. `end_pos - 1` is computed
\* in usize: with end_pos = 0 it panics under overflow checks and wraps to
\* usize::MAX, where no character stands, without them.
GetSymFrom(chars, start_pos, scan, split, oc) ==
    IF scan.tok.type = "Panic" \/ (scan.pos = 0 /\ oc)
    THEN [tok |-> TPanic, pos |-> scan.pos]
    ELSE GetSymSelected(scan, StrGet(chars, start_pos, GetSymEndPos(chars, scan.pos, split)))

\* Tokenizer::get_sym
GetSym(chars, pos, split, oc) ==
    GetSymFrom(chars, pos, ScanUntil(chars, pos, split, oc), split, oc)

-----------------------------------------------------------------------------
(* Script: the value parse builds                                          *)

\* Option<Address>
NoAddress == [kind |-> "None", pattern |-> <<>>, start |-> U32Zero, end |-> U32Zero]
AddrPattern(p)   == [kind |-> "Pattern", pattern |-> p, start |-> U32Zero, end |-> U32Zero]
AddrRange(a, b)  == [kind |-> "Range", pattern |-> <<>>, start |-> a, end |-> b]
AddrSingle(a)    == [kind |-> "Single", pattern |-> <<>>, start |-> a, end |-> U32Zero]

\* Option<String>
NoString == [some |-> FALSE, val |-> <<>>]
SomeString(s) == [some |-> TRUE, val |-> s]

\* Option<Options>
NoOptions ==
    [kind |-> "None", placeholder |-> NoString, pattern |-> <<>>,
     replace |-> <<>>, content |-> <<>>]
SOptions(ph, pat, rep) ==
    [kind |-> "S", placeholder |-> ph, pattern |-> pat, replace |-> rep,
     content |-> <<>>]
AOptions(c) ==
    [kind |-> "A", placeholder |-> NoString, pattern |-> <<>>,
     replace |-> <<>>, content |-> c]

MkScript(a, c, o) == [address |-> a, command |-> c, options |-> o]

NoScript == MkScript(NoAddress, NoChar, NoOptions)

\* Result<Script>: Ok(script), Err(message), or a panic (no return at all)
Ok(s)     == [status |-> "ok", err |-> "", script |-> s]
Err(msg)  == [status |-> "err", err |-> msg, script |-> NoScript]
Panicked  == [status |-> "panic", err |-> "", script |-> NoScript]

\* An error return reached with token `t` in hand; a call that panicked never
\* got as far as the return.
ErrOr(t, msg) == IF t.type = "Panic" THEN Panicked ELSE Err(msg)

-----------------------------------------------------------------------------
(* parse                                                                   *)

\* consume_whitespace: the token slot and the reader's position afterwards.
RECURSIVE SkipSpaces(_, _, _, _)
RECURSIVE SkipSpacesNext(_, _, _, _)
\* The body of the loop of consume_whitespace, on the token `next`.
SkipSpacesNext(token, next, chars, oc) ==
    IF next.tok.type = "Panic" THEN next
    ELSE IF next.tok.type = "None" THEN [tok |-> token, pos |-> next.pos]
    ELSE IF next.tok # TChar(" ") THEN next
    ELSE SkipSpaces(token, chars, next.pos, oc)

SkipSpaces(token, chars, pos, oc) ==
    SkipSpacesNext(token, GetToken(chars, pos, oc), chars, oc)

ConsumeWhitespace(token, chars, pos, oc) ==
    IF token.type = "Char" /\ token.ch = " "
    THEN SkipSpaces(token, chars, pos, oc)
    ELSE [tok |-> token, pos |-> pos]

\* parse, "Parse address (Optional)": the address, the token slot and the
\* reader's position (AddressGo), or the early return (AddressStop).
AddressGo(a, t) == [res |-> Ok(NoScript), address |-> a, tok |-> t.tok, pos |-> t.pos]

AddressStop(r) == [res |-> r, address |-> NoAddress, tok |-> TNone, pos |-> 0]

\* after "N,": t2 is the token that should be the end address
ParseAddressRange(chars, t0, t2, oc) ==
    IF t2.tok.type = "Number"
    THEN AddressGo(AddrRange(t0.tok.num, t2.tok.num), GetToken(chars, t2.pos, oc))
    ELSE AddressStop(ErrOr(t2.tok, "Missing end address in [SCRIPT]"))

\* after the Number t0: t1 is the token that follows it
ParseAddressNumber(chars, t0, t1, oc) ==
    IF t1.tok.type = "Char" /\ t1.tok.ch = ","
    THEN ParseAddressRange(chars, t0, GetToken(chars, t1.pos, oc), oc)
    ELSE IF t1.tok.type = "Symbol"
    THEN AddressGo(AddrSingle(t0.tok.num), t1)
    ELSE AddressStop(ErrOr(t1.tok, "address format error"))

\* after the opening '/': pattern is what get_sym('/') returned
ParseAddressPattern(chars, pattern, oc) ==
    IF pattern.tok.type = "Symbol"
    THEN AddressGo(AddrPattern(pattern.tok.sym), GetToken(chars, pattern.pos, oc))
    ELSE AddressStop(ErrOr(pattern.tok, "address format error"))

\* the match on the first token t0
ParseAddressFirst(chars, t0, oc) ==
    IF t0.tok.type = "Panic" THEN AddressStop(Panicked)
    ELSE IF t0.tok.type = "Number"
    THEN ParseAddressNumber(chars, t0, GetToken(chars, t0.pos, oc), oc)
    ELSE IF t0.tok.type = "Char" /\ t0.tok.ch = "/"
    THEN ParseAddressPattern(chars, GetSym(chars, t0.pos, "/", oc), oc)
    ELSE AddressGo(NoAddress, t0)

ParseAddress(chars, oc) == ParseAddressFirst(chars, GetToken(chars, 0, oc), oc)

\* parse, the `s` arm of "Parse options": the replace body
ParseSReplace(placeholder, pattern, replace) ==
    IF replace.tok.type # "Symbol" THEN ErrOr(replace.tok, "missing pattern")
    ELSE Ok(MkScript(NoAddress, "s",
                     SOptions(placeholder, pattern.tok.sym, replace.tok.sym)))

\* the pattern body
ParseSPattern(placeholder, pattern, chars, oc) ==
    IF pattern.tok.type # "Symbol" THEN ErrOr(pattern.tok, "missing pattern")
    ELSE ParseSReplace(placeholder, pattern, GetSym(chars, pattern.pos, "/", oc))

\* the test of the delimiter held in the token slot, then the two bodies
ParseSDelimiter(placeholder, token, chars, pos, oc) ==
    IF token.type = "Panic" THEN Panicked
    ELSE IF token.type = "Char" /\ token.ch # "/" THEN Err("Missing '/' in argument")
    ELSE ParseSPattern(placeholder, GetSym(chars, pos, "/", oc), chars, oc)

\* after '@' and the Symbol ph: the token slot is refilled with `after`
ParseSAfterPlaceholder(ph, after, chars, oc) ==
    ParseSDelimiter(SomeString(ph.tok.sym), after.tok, chars, after.pos, oc)

\* after '@': ph is the token that should be the placeholder
ParseSPlaceholder(ph, chars, oc) ==
    IF ph.tok.type # "Symbol" THEN ErrOr(ph.tok, "Missing placeholder")
    ELSE ParseSAfterPlaceholder(ph, GetToken(chars, ph.pos, oc), chars, oc)

ParseSOptions(token, chars, pos, oc) ==
    IF token.type = "Char" /\ token.ch = "@"
    THEN ParseSPlaceholder(GetToken(chars, pos, oc), chars, oc)
    ELSE ParseSDelimiter(NoString, token, chars, pos, oc)

\* parse, the `a` | `i` arm of "Parse options": the body after "\\\n"
ParseABody(command, body) ==
    IF body.tok.type = "Symbol"
    THEN Ok(MkScript(NoAddress, command, AOptions(body.tok.sym)))
    ELSE ErrOr(body.tok, "missing content in a command")

\* after '\\': next_line is the token that should be the newline
ParseANextLine(command, next_line, chars, oc) ==
    IF next_line.tok # TChar("\n")
    THEN ErrOr(next_line.tok, "missing content in a command")
    ELSE ParseABody(command, GetSym(chars, next_line.pos, "\n", oc))

\* the match on the token slot ws, once the whitespace is consumed
ParseAContent(command, ws, chars, oc) ==
    IF ws.tok.type = "Char" /\ ws.tok.ch = "\\"
    THEN ParseANextLine(command, GetToken(chars, ws.pos, oc), chars, oc)
    ELSE IF ws.tok.type = "Symbol"
    THEN Ok(MkScript(NoAddress, command, AOptions(ws.tok.sym)))
    ELSE ErrOr(ws.tok, "missing content in a command")

ParseAOptions(command, token, chars, pos, oc) ==
    ParseAContent(command, ConsumeWhitespace(token, chars, pos, oc), chars, oc)

\* parse: Ok(Script { address, command, options }), or the options' failure
ParseFinish(address, command, opts) ==
    IF opts.status # "ok" THEN opts
    ELSE Ok(MkScript(address, command, opts.script.options))

\* parse, "Parse options": `next` is the token read after the command
ParseOptions(address, command, next, chars, oc) ==
    IF next.tok.type = "Panic" THEN Panicked
    ELSE ParseFinish(address, command,
            IF command = "s" THEN ParseSOptions(next.tok, chars, next.pos, oc)
            ELSE IF command \in {"a", "i"}
            THEN ParseAOptions(command, next.tok, chars, next.pos, oc)
            ELSE Ok(MkScript(NoAddress, command, NoOptions)))

\* parse, "Parse command": ws is the token slot once the whitespace is consumed
ParseCommand(address, ws, chars, oc) ==
    IF ws.tok.type # "Symbol" \/ Len(ws.tok.sym) = 0
    THEN ErrOr(ws.tok, "missing command")
    ELSE ParseOptions(address, ws.tok.sym[1], GetToken(chars, ws.pos, oc), chars, oc)

\* parse after its address part
ParseAfterAddress(addr, chars, oc) ==
    IF addr.res.status # "ok" THEN addr.res
    ELSE ParseCommand(addr.address,
                      ConsumeWhitespace(addr.tok, chars, addr.pos, oc), chars, oc)

\* parse
Parse(chars, oc) == ParseAfterAddress(ParseAddress(chars, oc), chars, oc)

-----------------------------------------------------------------------------
(* The scripts the tokenizer and the parser are run on                     *)

\* Longest pattern / replace / content body of the generated scripts.
MaxBody == 2

\* Most spaces between two parts of a generated script.
MaxSpaces == 2

\* Most calls of get_token that return None on one tokenizer.
MaxEofCalls == 2

\* Most calls of get_sym on one tokenizer.
MaxSymCalls == 2

BodyChars == {"a", "7", "U+E9"}

SeqsUpTo(S, n) == UNION {[1..k -> S] : k \in 0..n}

RECURSIVE Concat(_)
\* The concatenation of a sequence of strings.
Concat(parts) == IF parts = <<>> THEN <<>> ELSE Head(parts) \o Concat(Tail(parts))

Spaces == {[i \in 1..k |-> " "] : k \in 0..MaxSpaces}

\* u32::MAX, and the least decimal run that does not fit u32
U32MaxRun  == <<"4", "2", "9", "4", "9", "6", "7", "2", "9", "5">>
U32OverRun == <<"4", "2", "9", "4", "9", "6", "7", "2", "9", "6">>

NumRuns == {<<"1">>, <<"0", "7">>, U32MaxRun, U32OverRun}

EndRuns == {<<"2">>, U32OverRun}

Bodies == SeqsUpTo(BodyChars, MaxBody) \cup {U32OverRun}

ReplaceBodies == {<<>>, <<"b">>, <<"b", " ", "c">>, U32OverRun}

Words == {<<"t">>, <<"t", "e", "x", "t">>}

\* an address, well formed or cut short
AddressTexts ==
    {<<>>}
    \cup NumRuns
    \cup {n \o <<",">> : n \in NumRuns}
    \cup {n \o <<",">> \o m : n \in NumRuns, m \in EndRuns}
    \cup {<<"/">> \o p \o <<"/">> : p \in Bodies}
    \cup {<<"/">> \o p : p \in Bodies}

CommandTexts ==
    {<<>>, <<"s">>, <<"d">>, <<"p">>, <<"a">>, <<"i">>, <<"x">>, <<"d", "q">>,
     <<"s", "x">>, <<"a", "t">>}

TailTexts ==
    {<<>>, <<"/", "a", "/", "b", "/">>, <<" ", "t">>, <<"\\", "\n", "a", " ", "b">>}

\* `s` with its optional placeholder and its two bodies, each delimiter
\* present, missing or replaced
SubstituteTexts ==
    {Concat(<<(<<"s">>), ph, d1, p, d2, r, d3>>) :
        ph \in {<<>>, <<"@", "p", "h">>, <<"@">>},
        d1 \in {<<"/">>, <<>>, <<"7">>, <<",">>},
        p  \in Bodies, d2 \in {<<"/">>, <<>>},
        r  \in ReplaceBodies, d3 \in {<<"/">>, <<>>}}

\* `a` / `i` in the one-word form and in the backslash form
AppendTexts ==
    {Concat(<<ad, c, sp, w, rest>>) :
        ad \in {<<>>, <<"/", "a", "/", " ">>}, c \in {<<"a">>, <<"i">>},
        sp \in Spaces, w \in Words \cup {<<>>, <<"7">>},
        rest \in {<<>>, <<" ", "z">>, <<"7">>}}
    \cup
    {Concat(<<ad, c, sp, (<<"\\">>), nl, b, rest>>) :
        ad \in {<<>>, <<"/", "U+E9", "/", " ">>}, c \in {<<"a">>, <<"i">>},
        sp \in Spaces, nl \in {<<"\n">>, <<>>}, b \in Bodies,
        rest \in {<<>>, <<"\n">>, <<"\n", "z">>}}

AddressedTexts ==
    {Concat(<<ad, sp, c, t>>) :
        ad \in AddressTexts, sp \in Spaces, c \in CommandTexts, t \in TailTexts}

ScriptTexts == SubstituteTexts \cup AppendTexts \cup AddressedTexts

-----------------------------------------------------------------------------
(* The tokenizer and the parser as a state machine                         *)

NotParsed == [status |-> "none", err |-> "", script |-> NoScript]

ParseInit ==
    /\ text \in ScriptTexts
    /\ overflow_checks \in BOOLEAN
    /\ tpos = 0
    /\ tokens = <<>>
    /\ tstatus = "run"
    /\ syms = <<>>
    /\ parsed = NotParsed
    /\ file = <<>>
    /\ file0 = <<>>
    /\ script = NoScript
    /\ source_code = <<>>
    /\ tree_text = <<>>
    /\ caps = <<>>
    /\ node_map = <<>>
    /\ worklist = <<>>
    /\ all_edit = <<>>
    /\ pc = "idle"
    /\ error = ""
    /\ in_place = -1
    /\ stdout = <<>>

\* A run exercises one entry point: it steps a tokenizer of its own over `text`
\* (as test_tokenizer does), or it calls parse.
\* One call of Tokenizer::get_token.
CallGetToken ==
    /\ tstatus = "run"
    /\ parsed = NotParsed
    /\ syms = <<>>
    /\ LET t == GetToken(text, tpos, overflow_checks) IN
         /\ tpos' = t.pos
         /\ tokens' = Append(tokens, t.tok)
         /\ tstatus' = IF t.tok.type = "Panic" THEN "panic"
                       ELSE IF t.tok.type = "None" THEN "eof" ELSE "run"
    /\ UNCHANGED <<text, overflow_checks, syms, parsed, evars>>

\* get_token called again after it returned None
CallGetTokenAtEnd ==
    /\ tstatus = "eof"
    /\ parsed = NotParsed
    /\ Cardinality({i \in 1..Len(tokens) : tokens[i].type = "None"}) < MaxEofCalls
    /\ LET t == GetToken(text, tpos, overflow_checks) IN
         /\ tpos' = t.pos
         /\ tokens' = Append(tokens, t.tok)
    /\ UNCHANGED <<text, overflow_checks, tstatus, syms, parsed, evars>>

\* get_sym(split) returned r: the call is recorded, the reader is where the
\* call left it.
GetSymReturns(split, r) ==
    /\ syms' = Append(syms, [start |-> tpos, split |-> split,
                             tok |-> r.tok, pos |-> r.pos])
    /\ tpos' = r.pos
    /\ tstatus' = IF r.tok.type = "Panic" THEN "panic" ELSE "run"

\* One call of Tokenizer::get_sym, with one of the two delimiters parse uses,
\* on a tokenizer that get_token has advanced (as parse does before each of
\* its calls of get_sym).
CallGetSym ==
    /\ tstatus = "run"
    /\ parsed = NotParsed
    /\ Len(syms) < MaxSymCalls
    /\ \E split \in {"/", "\n"} :
         GetSymReturns(split, GetSym(text, tpos, split, overflow_checks))
    /\ UNCHANGED <<text, overflow_checks, tokens, parsed, evars>>

\* parse(text)
CallParse ==
    /\ parsed = NotParsed
    /\ tokens = <<>>
    /\ syms = <<>>
    /\ parsed' = Parse(text, overflow_checks)
    /\ UNCHANGED <<text, overflow_checks, tpos, tokens, tstatus, syms, evars>>

ParseNext == CallGetToken \/ CallGetTokenAtEnd \/ CallGetSym \/ CallParse

SpecParse == ParseInit /\ [][ParseNext]_vars

-----------------------------------------------------------------------------
(* tree-sitter's points, nodes and edits (the library's, as main.rs uses   *)
(* them). The source text is ASCII here: a byte is a character.            *)

Point(r, c) == [row |-> r, column |-> c]

\* point_add
PointAdd(a, b) ==
    IF b.row > 0 THEN Point(a.row + b.row, b.column)
    ELSE Point(a.row, a.column + b.column)

\* point_sub (saturating)
PointSub(a, b) ==
    IF a.row > b.row THEN Point(a.row - b.row, a.column)
    ELSE Point(0, IF a.column >= b.column THEN a.column - b.column ELSE 0)

\* The row and column of byte offset b of `src`.
PointAt(src, b) ==
    LET nls == {i \in 1..b : src[i] = "\n"}
        last == IF nls = {} THEN 0 ELSE CHOOSE i \in nls : \A j \in nls : j <= i
    IN  Point(Cardinality(nls), b - last)

\* The node the parser built over bytes [s, e) of `src`.
MkNode(src, s, e) ==
    [start_byte |-> s, start_point |-> PointAt(src, s),
     bytes |-> e - s, extent |-> PointSub(PointAt(src, e), PointAt(src, s))]

\* Node::start_byte, end_byte, start_position, end_position
StartByte(node)     == node.start_byte
EndByte(node)       == node.start_byte + node.bytes
StartPosition(node) == node.start_point
EndPosition(node)   == PointAdd(node.start_point, node.extent)

InputEdit(sb, oeb, neb, sp, oep, nep) ==
    [start_byte |-> sb, old_end_byte |-> oeb, new_end_byte |-> neb,
     start_position |-> sp, old_end_position |-> oep, new_end_position |-> nep]

\* Node::edit (ts_node_edit): the node keeps its size, its start moves.
NodeEdit(node, edit) ==
    IF node.start_byte >= edit.old_end_byte
    THEN [node EXCEPT
            !.start_byte = edit.new_end_byte + (node.start_byte - edit.old_end_byte),
            !.start_point = PointAdd(edit.new_end_position,
                                     PointSub(node.start_point, edit.old_end_position))]
    ELSE IF node.start_byte > edit.start_byte
    THEN [node EXCEPT !.start_byte = edit.new_end_byte,
                      !.start_point = edit.new_end_position]
    ELSE node

\* lines 82-84 left out: the node keeps the coordinates it was captured with
EditAllOmitted(node, edits) == node

RECURSIVE EditAll(_, _)
\* `for edit in &all_edit { node.edit(edit); }`
EditAll(node, edits) ==
    IF edits = <<>> THEN node
    ELSE EditAll(NodeEdit(node, Head(edits)), Tail(edits))

-----------------------------------------------------------------------------
(* main.rs: the edit engine                                                *)

\* calculate_edit with the length of the new text left out of new_end_byte
CalculateEditForgetsLength(node, value) ==
    InputEdit(StartByte(node), EndByte(node), StartByte(node),
              StartPosition(node), EndPosition(node), StartPosition(node))

\* calculate_edit
CalculateEdit(node, value) ==
    LET start_byte == StartByte(node)
        new_end_byte == start_byte + ByteLen(value)
        start_position == StartPosition(node)
        new_end_position ==
            Point(start_position.row, start_position.column + ByteLen(value))
    IN  InputEdit(start_byte, EndByte(node), new_end_byte,
                  start_position, EndPosition(node), new_end_position)

\* The InputEdit append_content builds for an insertion at (byte, pos).
InsertEdit(mod_start_byte, mod_start_pos, content) ==
    InputEdit(mod_start_byte, mod_start_byte, mod_start_byte + ByteLen(content),
              mod_start_pos, mod_start_pos,
              Point(mod_start_pos.row, mod_start_pos.row + ByteLen(content)))

\* String::replace_range(a..b, value): it panics when the range is not in the string.
ReplaceRange(src, a, b, value) ==
    IF a <= b /\ b <= Len(src)
    THEN [ok |-> TRUE, val |-> SubSeq(src, 1, a) \o value \o SubSeq(src, b + 1, Len(src))]
    ELSE [ok |-> FALSE, val |-> src]

\* String::insert_str(idx, content): it panics when idx is past the end.
InsertStr(src, idx, content) ==
    IF idx <= Len(src)
    THEN [ok |-> TRUE, val |-> SubSeq(src, 1, idx) \o content \o SubSeq(src, idx + 1, Len(src))]
    ELSE [ok |-> FALSE, val |-> src]

\* str::get(a..b) on the source buffer
SourceGet(src, a, b) ==
    IF a <= b /\ b <= Len(src)
    THEN [some |-> TRUE, val |-> SubSeq(src, a + 1, b)]
    ELSE NoStr

\* execute_query, lines 31-46: the captures grouped by name, in discovery order
RECURSIVE NodesOf(_, _, _)
NodesOf(src, cs, name) ==
    IF cs = <<>> THEN <<>>
    ELSE LET rest == NodesOf(src, Tail(cs), name) IN
         IF Head(cs).name = name
         THEN <<MkNode(src, Head(cs).s, Head(cs).e)>> \o rest
         ELSE rest

ExecuteQuery(src, cs) ==
    [name \in {cs[i].name : i \in 1..Len(cs)} |-> NodesOf(src, cs, name)]

\* The orders a HashMap may iterate its keys in.
KeyOrders(m) ==
    {o \in [1..Cardinality(DOMAIN m) -> DOMAIN m] :
        \A i, j \in 1..Cardinality(DOMAIN m) : i # j => o[i] # o[j]}

RECURSIVE Visits(_, _)
\* `for nodes in node_map { for node in nodes {..} }` with the keys in `order`
Visits(m, order) ==
    IF order = <<>> THEN <<>>
    ELSE [i \in 1..Len(m[Head(order)]) |-> <<Head(order), i>>]
         \o Visits(m, Tail(order))

RECURSIVE JoinLines(_)
\* [&str]::join("\n")
JoinLines(parts) ==
    IF parts = <<>> THEN <<>>
    ELSE IF Len(parts) = 1 THEN Head(parts)
    ELSE Head(parts) \o <<"\n">> \o JoinLines(Tail(parts))

\* print_node, lines 176-184: the slice of every visited node, or the error
PrintContent(src, m, visits) ==
    [i \in 1..Len(visits) |->
        SourceGet(src, StartByte(m[visits[i][1]][visits[i][2]]),
                       EndByte(m[visits[i][1]][visits[i][2]]))]

-----------------------------------------------------------------------------
(* The inputs of main: the file, the script, what the query engine finds   *)

\* Longest source file.
MaxSrc == 2

\* Most captures one query reports.
MaxCaps == 2

\* Longest replacement / inserted content.
MaxValue == 2

SrcLetters == <<"a", "b", "c", "d", "e", "f", "g", "h">>

\* Every third byte of a source file is a newline, the others are letters.
SrcChar(i) == IF i % 3 = 2 THEN "\n" ELSE SrcLetters[((i - 1) % Len(SrcLetters)) + 1]

Sources == {[i \in 1..n |-> SrcChar(i)] : n \in 0..MaxSrc}

ValueChars == <<"X", "\n", "Y", "Z">>

\* "", "X", "X\n", ...
Values == {[i \in 1..n |-> ValueChars[((i - 1) % Len(ValueChars)) + 1]] : n \in 0..MaxValue}

\* the default placeholder, main.rs:210
Tbr == <<"t", "b", "r">>

CaptureNames == {Tbr, <<"p", "h">>}

SomePattern == <<"(", "_", ")", " ", "@", "t", "b", "r">>

Addresses ==
    {NoAddress, AddrPattern(SomePattern), AddrRange(U32(0, 1), U32(0, 2)),
     AddrSingle(U32(0, 1))}

\* The Script values execute_script is handed: what parse builds (`s` with
\* SCommandOptions, `a`/`i` with ACommandOptions, any other letter with none),
\* and `s`, `a`, `i` with the options of the other kind or none.
Scripts ==
    {MkScript(a, "s", o) :
        a \in {NoAddress, AddrPattern(SomePattern)},
        o \in {SOptions(ph, SomePattern, v) :
                  ph \in {NoString, SomeString(<<"p", "h">>)}, v \in Values}}
    \cup
    {MkScript(a, c, AOptions(v)) : a \in Addresses, c \in {"a", "i"}, v \in Values}
    \cup
    {MkScript(a, c, NoOptions) : a \in Addresses, c \in {"s", "a", "i", "d", "p", "x"}}
    \cup
    {MkScript(a, "s", AOptions(<<"X">>)) : a \in Addresses}
    \cup
    {MkScript(a, c, SOptions(NoString, SomePattern, <<"X">>)) :
        a \in Addresses, c \in {"a", "i"}}

Cap(n, s, e) == [name |-> n, s |-> s, e |-> e]

\* Two nodes of one syntax tree are disjoint or nested.
Laminar(c, d) ==
    \/ c.e <= d.s \/ d.e <= c.s
    \/ (c.s <= d.s /\ d.e <= c.e)
    \/ (d.s <= c.s /\ c.e <= d.e)

\* What a query over `src` may report: captures of nodes of its tree.
QueryResults(src) ==
    {cs \in SeqsUpTo({Cap(n, a, b) : n \in CaptureNames,
                                     a \in 0..Len(src), b \in 0..Len(src)}, MaxCaps) :
        /\ \A i \in 1..Len(cs) : cs[i].s <= cs[i].e
        /\ \A i, j \in 1..Len(cs) : Laminar(cs[i], cs[j])}

EmptyMap == [n \in {} |-> <<>>]

-----------------------------------------------------------------------------
(* main and execute_script as a state machine                              *)

Init ==
    /\ file \in Sources
    /\ file0 = file
    /\ script \in Scripts
    /\ source_code = <<>>
    /\ tree_text = <<>>
    /\ caps = <<>>
    /\ node_map = EmptyMap
    /\ worklist = <<>>
    /\ all_edit = <<>>
    /\ pc = "main"
    /\ error = ""
    /\ in_place = -1
    /\ stdout = <<>>
    /\ text = <<>>
    /\ overflow_checks = FALSE
    /\ tpos = 0
    /\ tokens = <<>>
    /\ tstatus = "run"
    /\ syms = <<>>
    /\ parsed = NotParsed

\* main.rs:268-275: the source is read from FILE
ReadSource ==
    /\ pc = "main"
    /\ source_code' = file
    /\ pc' = "execute"
    /\ UNCHANGED <<file, file0, script, tree_text, caps, node_map, worklist, all_edit,
                   error, in_place, stdout, pvars>>

\* an `Err` propagated by `?` out of execute_script and out of main
Fail(msg) ==
    /\ pc' = "failed"
    /\ error' = msg
    /\ UNCHANGED <<file, file0, script, source_code, caps, node_map, worklist, all_edit,
                   in_place, stdout, pvars>>

QueryRuns ==
    \/ script.command = "s" /\ script.options.kind = "S"
    \/ script.command \in {"d", "p", "a", "i"} /\ script.address.kind = "Pattern"

\* execute_script:203-206
ExecMissingOptions ==
    /\ pc = "execute"
    /\ script.command = "s" /\ script.options.kind # "S"
    /\ tree_text' = source_code
    /\ Fail("missing `s` command's options")

\* execute_script:221-224
ExecMissingPattern ==
    /\ pc = "execute"
    /\ script.command \in {"d", "p", "a", "i"} /\ script.address.kind # "Pattern"
    /\ tree_text' = source_code
    /\ Fail("missing pattern in command")

\* execute_query:29: the pattern is no query of the language
ExecQueryFails ==
    /\ pc = "execute"
    /\ QueryRuns
    /\ tree_text' = source_code
    /\ Fail("Failed to parse query")

\* execute_script:230-233 falling through to Ok(()) instead of returning the error
ExecMissingContentIgnored ==
    /\ pc = "execute"
    /\ script.command \in {"a", "i"} /\ script.address.kind = "Pattern"
    /\ script.options.kind # "A"
    /\ tree_text' = source_code
    /\ pc' = "executed"
    /\ UNCHANGED <<file, file0, script, source_code, caps, node_map, worklist, all_edit,
                   error, in_place, stdout, pvars>>

\* execute_script:230-233, reached once the query has run
ExecMissingContent ==
    /\ pc = "execute"
    /\ script.command \in {"a", "i"} /\ script.address.kind = "Pattern"
    /\ script.options.kind # "A"
    /\ tree_text' = source_code
    /\ Fail("missing content in a command")

\* execute_script:246, todo!()
ExecTodo ==
    /\ pc = "execute"
    /\ script.command \notin {"s", "d", "p", "a", "i"}
    /\ pc' = "panicked"
    /\ tree_text' = source_code
    /\ UNCHANGED <<file, file0, script, source_code, caps, node_map, worklist, all_edit,
                   error, in_place, stdout, pvars>>

\* The capture name `s` replaces: options.placeholder.unwrap_or("tbr")
Placeholder(sc) ==
    IF sc.options.placeholder.some THEN sc.options.placeholder.val ELSE Tbr

\* replace_source:77-79 skipping a name the map lacks instead of failing
ExecMissingNameSkipped ==
    /\ pc = "execute"
    /\ script.command = "s" /\ script.options.kind = "S"
    /\ \E cs \in QueryResults(source_code) :
         /\ Placeholder(script) \notin DOMAIN ExecuteQuery(source_code, cs)
         /\ caps' = cs
         /\ node_map' = ExecuteQuery(source_code, cs)
    /\ tree_text' = source_code
    /\ pc' = "executed"
    /\ UNCHANGED <<file, file0, script, source_code, worklist, all_edit, error,
                   in_place, stdout, pvars>>

\* replace_source:77-79: the query produced no node under the placeholder
ExecMissingName ==
    /\ pc = "execute"
    /\ script.command = "s" /\ script.options.kind = "S"
    /\ \E cs \in QueryResults(source_code) :
         /\ Placeholder(script) \notin DOMAIN ExecuteQuery(source_code, cs)
         /\ caps' = cs
         /\ node_map' = ExecuteQuery(source_code, cs)
    /\ tree_text' = source_code
    /\ pc' = "failed"
    /\ error' = "Cannot get name"
    /\ UNCHANGED <<file, file0, script, source_code, worklist, all_edit, in_place, stdout, pvars>>

\* execute_script:207-218 up to the first node of replace_source's loop
ExecStartReplace ==
    /\ pc = "execute"
    /\ script.command = "s" /\ script.options.kind = "S"
    /\ \E cs \in QueryResults(source_code) :
         LET m == ExecuteQuery(source_code, cs) IN
         /\ Placeholder(script) \in DOMAIN m
         /\ caps' = cs
         /\ node_map' = m
         /\ worklist' = Visits(m, <<Placeholder(script)>>)
    /\ tree_text' = source_code
    /\ all_edit' = <<>>
    /\ pc' = "replace"
    /\ UNCHANGED <<file, file0, script, source_code, error, in_place, stdout, pvars>>

\* execute_script:225-241 up to the first node of the loop of delete_node or
\* append_content; the HashMap yields its keys in an order of its own
ExecStartLoop ==
    /\ pc = "execute"
    /\ \/ script.command = "d"
       \/ script.command \in {"a", "i"} /\ script.options.kind = "A"
    /\ script.address.kind = "Pattern"
    /\ \E cs \in QueryResults(source_code) :
         LET m == ExecuteQuery(source_code, cs) IN
         \E order \in KeyOrders(m) :
            /\ caps' = cs
            /\ node_map' = m
            /\ worklist' = Visits(m, order)
            /\ pc' = IF Visits(m, order) = <<>> THEN "executed"
                     ELSE IF script.command = "d" THEN "delete" ELSE "append"
    /\ tree_text' = source_code
    /\ all_edit' = <<>>
    /\ UNCHANGED <<file, file0, script, source_code, error, in_place, stdout, pvars>>

\* execute_script:225-228 and print_node
ExecPrint ==
    /\ pc = "execute"
    /\ script.command = "p" /\ script.address.kind = "Pattern"
    /\ \E cs \in QueryResults(source_code) :
         LET m == ExecuteQuery(source_code, cs) IN
         \E order \in KeyOrders(m) :
            LET print_content == PrintContent(source_code, m, Visits(m, order)) IN
            /\ caps' = cs
            /\ node_map' = m
            /\ IF \A i \in 1..Len(print_content) : print_content[i].some
               THEN /\ source_code' =
                          JoinLines([i \in 1..Len(print_content) |-> print_content[i].val])
                    /\ pc' = "executed"
                    /\ error' = error
               ELSE /\ source_code' = source_code
                    /\ pc' = "failed"
                    /\ error' = "get range fail"
    /\ tree_text' = source_code
    /\ UNCHANGED <<file, file0, script, worklist, all_edit, in_place, stdout, pvars>>

\* The node the loop is at, as stored (not yet edited).
CurrentNode == node_map[worklist[1][1]][worklist[1][2]]

\* The end of one iteration: the node is left edited in the map (iter_mut), the
\* edit is pushed, the tree is edited and re-parsed from the new text.
EndIteration(node, edit, new_source) ==
    /\ source_code' = new_source
    /\ node_map' = [node_map EXCEPT ![worklist[1][1]][worklist[1][2]] = node]
    /\ all_edit' = Append(all_edit, edit)
    /\ tree_text' = new_source
    /\ worklist' = Tail(worklist)
    /\ pc' = IF Tail(worklist) = <<>> THEN "executed" ELSE pc
    /\ UNCHANGED <<file, file0, script, caps, error, in_place, stdout, pvars>>

\* A panic inside the loop: the node was edited, nothing else happened.
PanicIteration(node) ==
    /\ node_map' = [node_map EXCEPT ![worklist[1][1]][worklist[1][2]] = node]
    /\ pc' = "panicked"
    /\ UNCHANGED <<file, file0, script, source_code, tree_text, caps, worklist, all_edit,
                   error, in_place, stdout, pvars>>

\* replace_source:80-95, one iteration
ReplaceStep ==
    /\ pc = "replace"
    /\ LET node  == EditAll(CurrentNode, all_edit)
           value == script.options.replace
           r     == ReplaceRange(source_code, StartByte(node), EndByte(node), value)
       IN  IF r.ok THEN EndIteration(node, CalculateEdit(node, value), r.val)
           ELSE PanicIteration(node)

\* delete_node's iteration without lines 112-114: the node is not rebased
DeleteStepStaleNode ==
    /\ pc = "delete"
    /\ LET node  == CurrentNode
           empty_str == <<>>
           r     == ReplaceRange(source_code, StartByte(node), EndByte(node), empty_str)
       IN  IF r.ok THEN EndIteration(node, CalculateEdit(node, empty_str), r.val)
           ELSE PanicIteration(node)

\* delete_node:111-123, one iteration
DeleteStep ==
    /\ pc = "delete"
    /\ LET node  == EditAll(CurrentNode, all_edit)
           empty_str == <<>>
           r     == ReplaceRange(source_code, StartByte(node), EndByte(node), empty_str)
       IN  IF r.ok THEN EndIteration(node, CalculateEdit(node, empty_str), r.val)
           ELSE PanicIteration(node)

\* append_content's iteration with the two sides exchanged: `a` anchors at the
\* start of the node and `i` at its end
AppendStepSidesSwapped ==
    /\ pc = "append"
    /\ LET node  == EditAll(CurrentNode, all_edit)
           is_insert == script.command = "a"
           mod_start_byte == IF is_insert THEN StartByte(node) ELSE EndByte(node)
           mod_start_pos  == IF is_insert THEN StartPosition(node) ELSE EndPosition(node)
           content == script.options.content
           r     == InsertStr(source_code, mod_start_byte, content)
       IN  IF r.ok
           THEN EndIteration(node, InsertEdit(mod_start_byte, mod_start_pos, content), r.val)
           ELSE PanicIteration(node)

\* append_content:139-166, one iteration
AppendStep ==
    /\ pc = "append"
    /\ LET node  == EditAll(CurrentNode, all_edit)
           is_insert == script.command # "a"
           mod_start_byte == IF is_insert THEN StartByte(node) ELSE EndByte(node)
           mod_start_pos  == IF is_insert THEN StartPosition(node) ELSE EndPosition(node)
           content == script.options.content
           r     == InsertStr(source_code, mod_start_byte, content)
       IN  IF r.ok
           THEN EndIteration(node, InsertEdit(mod_start_byte, mod_start_pos, content), r.val)
           ELSE PanicIteration(node)

\* main.rs:292: println!("{}", source_code)
PrintOutput ==
    /\ pc = "executed"
    /\ in_place' = 0
    /\ stdout' = source_code \o <<"\n">>
    /\ pc' = "done"
    /\ UNCHANGED <<file, file0, script, source_code, tree_text, caps, node_map, worklist,
                   all_edit, error, pvars>>

\* main.rs:293-304: FILE is truncated and the buffer written to it
WriteInPlace ==
    /\ pc = "executed"
    /\ in_place' = 1
    /\ file' = source_code
    /\ pc' = "done"
    /\ UNCHANGED <<file0, script, source_code, tree_text, caps, node_map, worklist,
                   all_edit, error, stdout, pvars>>

\* main.rs:305: the flag was given more than once
NoOutput ==
    /\ pc = "executed"
    /\ in_place' = 2
    /\ pc' = "done"
    /\ UNCHANGED <<file, file0, script, source_code, tree_text, caps, node_map, worklist,
                   all_edit, error, stdout, pvars>>

Next ==
    \/ ReadSource
    \/ ExecMissingOptions
    \/ ExecMissingPattern
    \/ ExecQueryFails
    \/ ExecMissingContent
    \/ ExecTodo
    \/ ExecMissingName
    \/ ExecStartReplace
    \/ ExecStartLoop
    \/ ExecPrint
    \/ ReplaceStep
    \/ DeleteStep
    \/ AppendStep
    \/ PrintOutput
    \/ WriteInPlace
    \/ NoOutput

Spec == Init /\ [][Next]_vars

-----------------------------------------------------------------------------
(* Claims about main.rs                                                    *)

\* The captures `s` replaces, in the order the query reported them.
PlaceholderCaps == SelectSeq(caps, LAMBDA c : c.name = Placeholder(script))

\* Captures that do not overlap and come in document order.
DocumentOrder(cs) == \A i \in 1..(Len(cs) - 1) : cs[i].e <= cs[i + 1].s

RECURSIVE Replaced(_, _, _, _)
\* `src` from byte `from` on, with each span of `cs` replaced by `value`.
Replaced(src, cs, value, from) ==
    IF cs = <<>> THEN SubSeq(src, from + 1, Len(src))
    ELSE SubSeq(src, from + 1, Head(cs).s) \o value
         \o Replaced(src, Tail(cs), value, Head(cs).e)

RECURSIVE SumDelta(_, _)
\* The sum over `cs` of (replacement length - match length).
SumDelta(cs, value) ==
    IF cs = <<>> THEN 0
    ELSE Len(value) - (Head(cs).e - Head(cs).s) + SumDelta(Tail(cs), value)

\* C1: `s` over captured nodes that do not overlap and are visited in document
\* order never panics, and once k nodes are done (all of them when the command
\* has returned) the buffer is the original text with exactly the first k
\* matched spans replaced by the replacement: the text before, between and
\* after the matches is unchanged, and the length is the original length plus
\* the sum of (replacement length - match length).
C1_ReplaceKeepsTextBetween ==
    (/\ script.command = "s"
     /\ pc \in {"replace", "executed", "done", "panicked"}
     /\ DocumentOrder(PlaceholderCaps))
    => LET done  == SubSeq(PlaceholderCaps, 1, Len(all_edit))
           tail  == IF done = <<>> THEN 0 ELSE done[Len(done)].e
           value == script.options.replace
       IN  /\ pc # "panicked"
           /\ pc \in {"executed", "done"} => Len(all_edit) = Len(PlaceholderCaps)
           /\ source_code = Replaced(file0, done, value, 0)
           /\ Len(source_code) = Len(file0) + SumDelta(done, value)

\* C1's case: two matches with text between them were replaced by a string of
\* another length.
C1_Witness ==
    /\ script.command = "s"
    /\ pc = "executed"
    /\ Len(PlaceholderCaps) >= 2
    /\ DocumentOrder(PlaceholderCaps)
    /\ PlaceholderCaps[1].e < PlaceholderCaps[2].s
    /\ Len(script.options.replace) # PlaceholderCaps[1].e - PlaceholderCaps[1].s
    /\ Len(script.options.replace) > 0

\* C2: a run of `p` with --in-place leaves the persisted file as it was.
C2_PrintLeavesFile ==
    (script.command = "p" /\ pc = "done" /\ in_place = 1) => file = file0

\* A Script that lacks what its command requires.
InvalidScript(sc) ==
    \/ sc.command = "s" /\ sc.options.kind # "S"
    \/ sc.command \in {"d", "p", "a", "i"} /\ sc.address.kind # "Pattern"
    \/ sc.command \in {"a", "i"} /\ sc.options.kind # "A"

\* C9: for a Script whose command lacks its options, its pattern address or
\* its content, execute_script returns an error: no edit is recorded, the
\* buffer is the text that was read, and main writes neither the file nor
\* standard output.
C9_FailFast ==
    (InvalidScript(script) /\ pc \notin {"main", "execute"})
    => /\ pc = "failed"
       /\ error # ""
       /\ all_edit = <<>>
       /\ source_code = file0
       /\ file = file0
       /\ in_place = -1
       /\ stdout = <<>>

\* C9's case: `a`/`i` with a pattern address and no content has failed, after
\* the query ran.
C9_Witness ==
    /\ script.command \in {"a", "i"}
    /\ script.address.kind = "Pattern"
    /\ script.options.kind # "A"
    /\ pc = "failed"
    /\ error = "missing content in a command"

\* C10: when the query reports no node under the placeholder name, `s` ends
\* in an error with no edit made: the buffer and the file are unchanged and
\* nothing is written.
C10_MissingPlaceholderAborts ==
    (/\ script.command = "s" /\ script.options.kind = "S"
     /\ pc \notin {"main", "execute"}
     /\ PlaceholderCaps = <<>>)
    => /\ pc = "failed"
       /\ all_edit = <<>>
       /\ source_code = file0
       /\ file = file0
       /\ stdout = <<>>

\* C10's case: the pattern matched, but captured nothing under the
\* placeholder name.
C10_Witness ==
    /\ script.command = "s"
    /\ pc = "failed"
    /\ error = "Cannot get name"
    /\ caps # <<>>
    /\ PlaceholderCaps = <<>>

\* What replace_source's loop body (lines 82-89) does to the stored node
\* `stored` with the value "": the rebased node, the spliced buffer, the edit.
ReplaceWithEmpty(stored, edits, src) ==
    LET node == EditAll(stored, edits)
        r    == ReplaceRange(src, StartByte(node), EndByte(node), <<>>)
    IN  [ok |-> r.ok, buffer |-> r.val, edit |-> CalculateEdit(node, <<>>)]

\* One iteration of delete_node does what replacing the node with "" does.
DeleteIsReplaceWithEmpty ==
    pc = "delete" =>
        LET rp == ReplaceWithEmpty(CurrentNode, all_edit, source_code) IN
        IF rp.ok
        THEN source_code' = rp.buffer /\ all_edit' = Append(all_edit, rp.edit)
        ELSE source_code' = source_code /\ all_edit' = all_edit /\ pc' = "panicked"

\* `d` has returned with nothing matched: a no-op; with one match: one replace
\* of that match with "".
DeleteOfFewMatches ==
    (script.command = "d" /\ pc \in {"executed", "done"}) =>
        /\ caps = <<>> => source_code = file0 /\ all_edit = <<>>
        /\ Len(caps) = 1 =>
              LET rp == ReplaceWithEmpty(MkNode(file0, caps[1].s, caps[1].e), <<>>, file0)
              IN  rp.ok /\ source_code = rp.buffer /\ all_edit = <<rp.edit>>

\* C11: for every node and every prior edit history, deleting the node yields
\* the buffer and the edit descriptor that replacing it with the empty string
\* yields; deleting no match leaves the buffer unchanged and the history
\* empty; deleting the single match of a pattern equals one replace with "".
C11_DeleteIsReplaceWithEmpty ==
    [][DeleteIsReplaceWithEmpty]_vars /\ []DeleteOfFewMatches

\* C11's case: `d` deleted two non-empty nodes, the second one with the first
\* deletion in the history and lying after it.
C11_Witness ==
    /\ script.command = "d"
    /\ pc = "executed"
    /\ Len(all_edit) = 2
    /\ \A i \in 1..2 : all_edit[i].old_end_byte > all_edit[i].start_byte
    /\ all_edit[2].start_byte >= all_edit[1].start_byte
    /\ \E i, j \in 1..Len(caps) : caps[i].e <= caps[j].s /\ caps[j].s > 0

RECURSIVE DiscoveryOrder(_, _)
\* The capture names of `cs` in the order of their first capture, after the
\* names in `seen`.
DiscoveryOrder(cs, seen) ==
    IF cs = <<>> THEN <<>>
    ELSE IF Head(cs).name \in seen THEN DiscoveryOrder(Tail(cs), seen)
    ELSE <<Head(cs).name>> \o DiscoveryOrder(Tail(cs), seen \cup {Head(cs).name})

\* C12: `d`, `a` and `i` visit the capture names in the order in which the
\* query first discovered them and, within a name, the nodes in match order;
\* the output of `p` lists the slices in that order, so it is a function of
\* the script, the source and what the query reports.
C12_DiscoveryOrderVisited ==
    LET m == ExecuteQuery(file0, caps)
        visits == Visits(m, DiscoveryOrder(caps, {}))
    IN  /\ (script.command \in {"d", "a", "i"} /\ pc \in {"delete", "append"}
            /\ all_edit = <<>>)
           => worklist = visits
        /\ (script.command = "p" /\ pc = "executed")
           => source_code = JoinLines([i \in 1..Len(visits) |->
                                SubSeq(file0, StartByte(m[visits[i][1]][visits[i][2]]) + 1,
                                       EndByte(m[visits[i][1]][visits[i][2]]))])

\* The captures the command works on: those of the placeholder for `s`, all
\* of them for `d`, `a` and `i`.
WorkedCaps == IF script.command = "s" THEN PlaceholderCaps ELSE caps

\* The capture behind the node the visit <<name, i>> is about.
CapOf(visit) == SelectSeq(caps, LAMBDA c : c.name = visit[1])[visit[2]]

\* Two byte ranges with no byte in common.
NonOverlapping(c, d) == c.e <= d.s \/ d.e <= c.s

PairwiseNonOverlapping(cs) ==
    \A i, j \in 1..Len(cs) : i # j => NonOverlapping(cs[i], cs[j])

\* The captures whose nodes the loop has already processed.
ProcessedCaps ==
    LET todo == {worklist[k] : k \in 1..Len(worklist)}
        all  == {<<c.name, i>> : c \in {WorkedCaps[k] : k \in 1..Len(WorkedCaps)},
                                 i \in 1..Len(caps)}
    IN  {v \in all : /\ v[2] <= Len(SelectSeq(caps, LAMBDA c : c.name = v[1]))
                     /\ v \notin todo}

\* By how many bytes the command's mutation of one node changes the length
\* of the buffer.
LengthDelta(c) ==
    IF script.command = "s" THEN Len(script.options.replace) - (c.e - c.s)
    ELSE IF script.command = "d" THEN 0 - (c.e - c.s)
    ELSE Len(script.options.content)

RECURSIVE SumLengthDelta(_)
\* The sum of the length changes made by the visits of S.
SumLengthDelta(S) ==
    IF S = {} THEN 0
    ELSE LET x == CHOOSE y \in S : TRUE
         IN  LengthDelta(CapOf(x)) + SumLengthDelta(S \ {x})

\* Where byte `b` of the original text, the first byte of a node, stands in the
\* current buffer: after the new text of every processed node that ends at or
\* before it.
CurrentOffset(b) == b + SumLengthDelta({v \in ProcessedCaps : CapOf(v).e <= b})

Anchor(c) == IF script.command = "a" THEN c.e ELSE c.s

RECURSIVE Repeated(_, _)
\* n copies of `content`
Repeated(content, n) == IF n = 0 THEN <<>> ELSE content \o Repeated(content, n - 1)

RECURSIVE InsertedFrom(_, _, _, _)
\* `src` from byte offset b on, with `content` put once at the anchor of every
\* visit of V.
InsertedFrom(src, V, content, b) ==
    Repeated(content, Cardinality({v \in V : Anchor(CapOf(v)) = b}))
    \o (IF b = Len(src) THEN <<>>
        ELSE <<src[b + 1]>> \o InsertedFrom(src, V, content, b + 1))

\* C14: `a` / `i` over captured nodes that do not overlap pairwise (adjacent
\* ones included) never panics; once some of the nodes are processed, the
\* buffer is the original text with the content put right after the last
\* byte (`a`) or right before the first byte (`i`) of each of them and no
\* original byte removed or moved; every edit descriptor is zero-width; when
\* the command has returned the length is the original length plus the
\* number of nodes times the length of the content.
C14_InsertAtAnchor ==
    (/\ script.command \in {"a", "i"} /\ script.options.kind = "A"
     /\ pc \in {"append", "executed", "done", "panicked"}
     /\ PairwiseNonOverlapping(caps))
    => /\ pc # "panicked"
       /\ source_code = InsertedFrom(file0, ProcessedCaps, script.options.content, 0)
       /\ \A k \in 1..Len(all_edit) : all_edit[k].old_end_byte = all_edit[k].start_byte
       /\ pc \in {"executed", "done"} =>
             /\ Len(all_edit) = Len(caps)
             /\ Len(source_code) = Len(file0) + Len(caps) * Len(script.options.content)

\* C14's case: the content, not empty, was inserted at two adjacent nodes that
\* are not empty.
C14_Witness ==
    /\ script.command \in {"a", "i"} /\ script.options.kind = "A"
    /\ pc = "executed"
    /\ Len(script.options.content) > 0
    /\ Len(caps) = 2
    /\ caps[1].s < caps[1].e /\ caps[2].s < caps[2].e
    /\ (caps[1].e = caps[2].s \/ caps[2].e = caps[1].s)

\* C17: every edit descriptor that `s`, `d`, `a` or `i` appends to the edit
\* history has start_byte <= old_end_byte and start_byte <= new_end_byte, and
\* its new end position is on the row of its start position, as many columns
\* after it as the new text has bytes.
C17_EditWellFormed ==
    \A k \in 1..Len(all_edit) :
        LET e == all_edit[k] IN
        /\ e.start_byte <= e.old_end_byte
        /\ e.start_byte <= e.new_end_byte
        /\ e.new_end_position =
              Point(e.start_position.row,
                    e.start_position.column + (e.new_end_byte - e.start_byte))

-----------------------------------------------------------------------------
(* Claims about script_parser.rs. The expected readings below take a       *)
(* script apart by position, not through the tokenizer.                    *)

IsSpace(ch) == ch = " "

\* The length of the longest run of characters of class C that starts right
\* after the first `from` characters of t.
RunLen(t, from, C(_)) ==
    CHOOSE n \in 0..(Len(t) - from) :
        /\ \A i \in 1..n : C(t[from + i])
        /\ (from + n = Len(t) \/ ~C(t[from + n + 1]))

\* The positions of character ch in t, ascending.
Positions(t, ch) ==
    LET S == {i \in 1..Len(t) : t[i] = ch}
    IN  [k \in 1..Cardinality(S) |-> CHOOSE i \in S : Cardinality({j \in S : j < i}) = k - 1]

IsAsciiText(t) == \A i \in 1..Len(t) : t[i] \notin NonAscii

\* u32 (two halves) divided by ten
U32DivMod10(u) ==
    LET t == (u.hi % 10) * Half + u.lo
    IN  [quot |-> U32(u.hi \div 10, t \div 10), rem |-> t % 10]

RECURSIVE U32Digits(_)
\* The decimal digits of a u32, without leading zeros.
U32Digits(u) ==
    LET d == U32DivMod10(u) IN
    IF d.quot = U32Zero THEN <<AsciiDigits[d.rem + 1]>>
    ELSE Append(U32Digits(d.quot), AsciiDigits[d.rem + 1])

RECURSIVE StripZeros(_)
\* A run of digits without its leading zeros: the decimal value it denotes.
StripZeros(run) ==
    IF Len(run) > 1 /\ Head(run) = "0" THEN StripZeros(Tail(run)) ELSE run

\* The u32 n is the decimal value of the digit run.
IsValueOf(n, run) == U32Digits(n) = StripZeros(run)

\* The length of "s" or "s@name" at the start of t (0: t does not start with s).
SubstituteHeadLen(t) ==
    IF Len(t) = 0 \/ t[1] # "s" THEN 0
    ELSE IF Len(t) >= 2 /\ t[2] = "@" /\ RunLen(t, 2, IsAsciiAlphabetic) > 0
    THEN 2 + RunLen(t, 2, IsAsciiAlphabetic)
    ELSE 1

\* C3: for ASCII strings P and R without '/', parse("s/P/R/") is Ok with
\* command s, pattern P, replace R and no placeholder, and parse("s@name/P/R/")
\* is the same with placeholder name.
C3_SubstituteRoundTrip ==
    LET h  == SubstituteHeadLen(text)
        sl == Positions(text, "/")
    IN  (/\ parsed.status # "none"
         /\ IsAsciiText(text)
         /\ h > 0
         /\ Len(sl) = 3 /\ sl[1] = h + 1 /\ sl[3] = Len(text))
        => parsed = Ok(MkScript(NoAddress, "s",
                        SOptions(IF h > 1 THEN SomeString(SubSeq(text, 3, h)) ELSE NoString,
                                 SubSeq(text, sl[1] + 1, sl[2] - 1),
                                 SubSeq(text, sl[2] + 1, sl[3] - 1))))

\* What C4 expects of a script whose address is `addr`-shaped and is followed,
\* `at` characters in, by a letter: the address and command letter when parse
\* is Ok, and Ok itself when the command takes no options.
AddressRead(at, rightAddress) ==
    /\ parsed.status # "panic"
    /\ text[at + 1] \notin {"s", "a", "i"} => parsed.status = "ok"
    /\ parsed.status = "ok" =>
          /\ rightAddress
          /\ parsed.script.command = text[at + 1]

\* C4: "N,M" before a command parses to Range(N, M), "N" right before a
\* command to Single(N), "/P/" before a command to Pattern(P); the command is
\* the first letter after the address; a script that starts with neither a
\* digit nor '/' has no address.
C4_AddressParsing ==
    LET n1 == RunLen(text, 0, IsAsciiDigit)
        n2 == IF Len(text) > n1 /\ text[n1 + 1] = ","
              THEN RunLen(text, n1 + 1, IsAsciiDigit) ELSE 0
        sl == Positions(text, "/")
        afterRange == n1 + 1 + n2 + RunLen(text, n1 + 1 + n2, IsSpace)
        afterPattern == IF Len(sl) >= 2 THEN sl[2] + RunLen(text, sl[2], IsSpace) ELSE 0
        IsLetterAt(k) == k < Len(text) /\ IsAsciiAlphabetic(text[k + 1])
    IN  parsed.status # "none" =>
        /\ (n1 > 0 /\ n2 > 0 /\ IsLetterAt(afterRange))
           => AddressRead(afterRange,
                 /\ parsed.script.address.kind = "Range"
                 /\ IsValueOf(parsed.script.address.start, SubSeq(text, 1, n1))
                 /\ IsValueOf(parsed.script.address.end, SubSeq(text, n1 + 2, n1 + 1 + n2)))
        /\ (n1 > 0 /\ IsLetterAt(n1))
           => AddressRead(n1,
                 /\ parsed.script.address.kind = "Single"
                 /\ IsValueOf(parsed.script.address.start, SubSeq(text, 1, n1)))
        /\ (Len(sl) >= 2 /\ sl[1] = 1 /\ IsLetterAt(afterPattern))
           => AddressRead(afterPattern,
                 parsed.script.address = AddrPattern(SubSeq(text, 2, sl[2] - 1)))
        /\ (n1 = 0 /\ (Len(sl) = 0 \/ sl[1] # 1) /\ parsed.status = "ok")
           => parsed.script.address = NoAddress

\* Where the command letter of a script with no address, or with a pattern
\* address, stands (the number of characters before it).
CommandStart(t) ==
    LET sl == Positions(t, "/")
    IN  IF Len(sl) >= 2 /\ sl[1] = 1 THEN sl[2] + RunLen(t, sl[2], IsSpace) ELSE 0

\* C5: after `a` or `i`, optional spaces and a run of letters give that run as
\* the content; a backslash and a newline give as the content every character
\* up to the next newline or the end of the script; `a` and `i` read alike.
C5_AppendContent ==
    LET k   == CommandStart(text)
        sp  == RunLen(text, k + 1, IsSpace)
        w   == RunLen(text, k + 1 + sp, IsAsciiAlphabetic)
        nls == {i \in (k + 4)..Len(text) : text[i] = "\n"}
        stop == IF nls = {} THEN Len(text) + 1 ELSE CHOOSE i \in nls : \A j \in nls : i <= j
        other == Parse([text EXCEPT ![k + 1] = IF @ = "a" THEN "i" ELSE "a"],
                       overflow_checks)
    IN  (parsed.status # "none" /\ k < Len(text) /\ text[k + 1] \in {"a", "i"}) =>
        /\ w > 0 =>
              /\ parsed.status = "ok"
              /\ parsed.script.command = text[k + 1]
              /\ parsed.script.options = AOptions(SubSeq(text, k + 2 + sp, k + 1 + sp + w))
        /\ (Len(text) >= k + 3 /\ text[k + 2] = "\\" /\ text[k + 3] = "\n") =>
              /\ parsed.status = "ok"
              /\ parsed.script.command = text[k + 1]
              /\ parsed.script.options = AOptions(SubSeq(text, k + 4, stop - 1))
        /\ other.status = parsed.status
        /\ other.script.address = parsed.script.address
        /\ other.script.options = parsed.script.options

\* The ends of the maximal runs of t: between two characters that are not both
\* digits and not both letters, and at both ends of t.
RunEnds(t) ==
    LET S == {0, Len(t)} \cup
             {i \in 1..(Len(t) - 1) :
                 /\ ~(IsAsciiDigit(t[i]) /\ IsAsciiDigit(t[i + 1]))
                 /\ ~(IsAsciiAlphabetic(t[i]) /\ IsAsciiAlphabetic(t[i + 1]))}
    IN  [k \in 1..Cardinality(S) |-> CHOOSE i \in S : Cardinality({j \in S : j < i}) = k - 1]

\* C6: the k-th token is a Number with the decimal value of the k-th run when
\* that is a run of digits, a Symbol holding it when it is a run of letters,
\* a Char otherwise; past the last run get_token returns None.
C6_TokenizerRuns ==
    LET ends == RunEnds(text) IN
    \A k \in 1..Len(tokens) :
        IF k < Len(ends)
        THEN LET run == SubSeq(text, ends[k] + 1, ends[k + 1]) IN
             IF IsAsciiDigit(run[1])
             THEN tokens[k].type = "Number" /\ IsValueOf(tokens[k].num, run)
             ELSE IF IsAsciiAlphabetic(run[1]) THEN tokens[k] = TSymbol(run)
             ELSE tokens[k] = TChar(run[1])
        ELSE tokens[k] = TNone

\* C7: a script whose `s` (with its optional "@placeholder") is not directly
\* followed by '/' is reported as a failure.
C7_MissingDelimiterFails ==
    LET h == SubstituteHeadLen(text) IN
    (/\ parsed.status # "none"
     /\ h > 0
     /\ (h = Len(text) \/ text[h + 1] # "/"))
    => parsed.status = "err"

\* C8: an `s` script that ends before the closing '/' of its pattern body or
\* of its replace body is reported as a failure.
C8_UnterminatedBodyFails ==
    LET h  == SubstituteHeadLen(text)
        sl == Positions(text, "/")
    IN  (/\ parsed.status # "none"
         /\ h > 0
         /\ h < Len(text) /\ text[h + 1] = "/"
         /\ Len(sl) < 3)
        => parsed.status = "err"

\* C15: every call get_sym(d) made at reader position p, with a d at or after
\* p, returns exactly the characters from p up to and excluding the next d,
\* and leaves the reader just past that d, also when the text has multi-byte
\* characters before or inside that body.
C15_GetSymExact ==
    \A k \in 1..Len(syms) :
        LET call == syms[k]
            ds   == {i \in (call.start + 1)..Len(text) : text[i] = call.split}
        IN  ds # {} =>
            LET q == CHOOSE i \in ds : \A j \in ds : i <= j
            IN  /\ call.tok = TSymbol(SubSeq(text, call.start + 1, q - 1))
                /\ call.pos = q

\* The number of characters of the address a script starts with: "N,M", "N" or
\* "/P/" (0: it starts with none of them).
AddressLen(t) ==
    LET n1 == RunLen(t, 0, IsAsciiDigit)
        n2 == IF Len(t) > n1 /\ t[n1 + 1] = "," THEN RunLen(t, n1 + 1, IsAsciiDigit) ELSE 0
        sl == Positions(t, "/")
    IN  IF n1 > 0 /\ n2 > 0 THEN n1 + 1 + n2
        ELSE IF n1 > 0 /\ (Len(t) = n1 \/ t[n1 + 1] # ",") THEN n1
        ELSE IF Len(sl) >= 2 /\ sl[1] = 1 THEN sl[2]
        ELSE 0

\* C16: a script with one or more spaces between its address (pattern, range
\* or single line) and its command letter parses to what the script without
\* those spaces parses to, whenever that one parses successfully.
C16_SpacesAfterAddressSkipped ==
    LET at == AddressLen(text)
        sp == RunLen(text, at, IsSpace)
        unspaced == SubSeq(text, 1, at) \o SubSeq(text, at + sp + 1, Len(text))
    IN  (/\ parsed.status # "none"
         /\ at > 0 /\ sp > 0
         /\ at + sp < Len(text) /\ IsAsciiAlphabetic(text[at + sp + 1])
         /\ Parse(unspaced, overflow_checks).status = "ok")
        => parsed = Parse(unspaced, overflow_checks)

====
